---- MODULE Spec2Model ----
(***************************************************************************)
(* CyberStalk: the collector (server/server.py, a Flask application over   *)
(* three MySQL tables) and the Windows capture agent                       *)
(* (client_windows/monitor_apps.py).                                       *)
(*                                                                         *)
(* Python values are represented as follows.                               *)
(*   None / a missing key    the empty sequence <<>>                       *)
(*   a present value v       the one-element sequence <<v>>                *)
(*   a list                  a sequence                                    *)
(*   a dict with known keys  a record                                      *)
(* Strings that the code only stores and compares are TLA+ strings;        *)
(* strings whose characters the code inspects (int(), strip(), len(),      *)
(* lower()) are sequences of one-character strings.                        *)
(***************************************************************************)
EXTENDS Integers, Sequences, FiniteSets, TLC

(* The field names of the records below.  TLC keeps the fields of a record *)
(* in the order in which it first read their names; read here first, that  *)
(* order is the alphabetical one, and every record below is written in it. *)
Fields ==
    [active |-> TRUE, active_process |-> TRUE, active_title |-> TRUE,
     app |-> TRUE, apps |-> TRUE, apps_json |-> TRUE, at |-> TRUE,
     battery |-> TRUE, body |-> TRUE, body_read |-> TRUE, code |-> TRUE,
     conn |-> TRUE, created_at |-> TRUE, cursor |-> TRUE, digits |-> TRUE,
     endpoint |-> TRUE, error |-> TRUE, exc |-> TRUE, gone |-> TRUE,
     header |-> TRUE, html |-> TRUE, hwnd |-> TRUE, id |-> TRUE,
     json |-> TRUE, key |-> TRUE, kind |-> TRUE, locked |-> TRUE,
     name |-> TRUE, next |-> TRUE, num |-> TRUE, ok |-> TRUE, pc |-> TRUE,
     pending |-> TRUE, pid |-> TRUE, points |-> TRUE, proc |-> TRUE,
     proceed |-> TRUE, process_name |-> TRUE, raised |-> TRUE,
     rate |-> TRUE, read |-> TRUE, rect |-> TRUE, resp |-> TRUE,
     row |-> TRUE, shape |-> TRUE, source |-> TRUE, status |-> TRUE,
     str |-> TRUE, text |-> TRUE, timestamp |-> TRUE, title |-> TRUE,
     tok |-> TRUE, token |-> TRUE, value |-> TRUE, visible |-> TRUE,
     window_title |-> TRUE]

VARIABLES
    \* ---- collector ----
    db,            \* table name -> set of committed rows
    next_id,       \* table name -> next AUTO_INCREMENT value
    connections,   \* number of store connections currently open
    clock,         \* the server's clock, in ticks (datetime.utcnow())
    req,           \* worker slot -> the request it is handling
    journal,       \* history: activity row id -> what the POST carried
    last_done,     \* history: id stored by the POST /api/status that returned last
    quota,         \* environment: the appends the clients still ask for
    \* ---- capture agent ----
    pc,            \* where main_loop is
    active,        \* main_loop's local: what get_active_window_info() returned
    apps,          \* main_loop's local: what get_open_apps() returned
    raw,           \* the top-level windows EnumWindows is going through
    visited,       \* how many of them the callback has been called for
    apps_by_pid,   \* get_open_apps's dict, in insertion order
    outcome,       \* how the last requests.post ended
    cancelled      \* history: an interrupt has been delivered

server_vars == <<db, next_id, connections, clock, req, journal, last_done, quota>>

client_vars == <<pc, active, apps, raw, visited, apps_by_pid, outcome, cancelled>>

vars == <<server_vars, client_vars>>

----------------------------------------------------------------------------
(* Bounds of the model *)

MaxSlots == 2
MaxRows == 2
MaxClock == 2
MaxWindows == 3

Slots == 1..MaxSlots

----------------------------------------------------------------------------
(* Python helpers *)

None == <<>>

Some(v) == <<v>>

\* Python truthiness of an optional string: None and "" are falsy.
Truthy(opt) == opt # None /\ opt # Some("")

Min(a, b) == IF a <= b THEN a ELSE b

\* A list left in the order it came in.
Unreversed(s) == s

Reverse(s) == [i \in 1..Len(s) |-> s[Len(s) + 1 - i]]

----------------------------------------------------------------------------
(* Configuration *)

SECRET_TOKEN == "S"

\* The heart-rate history window.
limit == 40

\* created_at.strftime("%Y-%m-%d %H:%M:%S"): the time at one-second
\* resolution.  The clock ticks twice a second: created_at carries sub-second
\* precision, the rendered timestamp does not.
strftime(t) == t \div 2

----------------------------------------------------------------------------
(* Decimal numerals, as int() and the JSON codec read and write them *)

DigitChars == <<"0", "1", "2", "3", "4", "5", "6", "7", "8", "9">>

IsDigit(c) == \E i \in 1..10 : DigitChars[i] = c

DigitVal(c) == (CHOOSE i \in 1..10 : DigitChars[i] = c) - 1

IsSpace(c) == c \in {" ", "\t", "\n"}

RECURSIVE DigitsValue(_)
\* The value of a non-empty sequence of digit characters.
DigitsValue(ds) ==
    IF Len(ds) = 0 THEN 0
    ELSE 10 * DigitsValue(SubSeq(ds, 1, Len(ds) - 1)) + DigitVal(ds[Len(ds)])

RECURSIVE Digits(_)
\* The decimal digits of a natural number.
Digits(n) ==
    IF n < 10 THEN <<DigitChars[n + 1]>>
    ELSE Digits(n \div 10) \o <<DigitChars[(n % 10) + 1]>>

RECURSIVE LStrip(_)
LStrip(s) == IF Len(s) > 0 /\ IsSpace(s[1]) THEN LStrip(Tail(s)) ELSE s

RECURSIVE RStrip(_)
RStrip(s) ==
    IF Len(s) > 0 /\ IsSpace(s[Len(s)]) THEN RStrip(SubSeq(s, 1, Len(s) - 1)) ELSE s

\* str.strip()
strip(s) == RStrip(LStrip(s))

(* A JSON scalar as request.get_json() delivers it to int():                 *)
(*   kind "null"               None, or the key is missing                   *)
(*   kind "int", num 80        a JSON integer                                *)
(*   kind "str", str cs        a JSON string, cs its characters              *)
(*   kind "inf"                the float Infinity (json accepts 1e999)       *)
JNull == [kind |-> "null", num |-> 0, str |-> <<>>]

JInt(n) == [kind |-> "int", num |-> n, str |-> <<>>]

JStr(cs) == [kind |-> "str", num |-> 0, str |-> cs]

JInf == [kind |-> "inf", num |-> 0, str |-> <<>>]

\* A conversion that never raises: 0 for whatever is not an integer.
int_or_zero(x) ==
    IF x.kind = "int" THEN [exc |-> "", value |-> x.num] ELSE [exc |-> "", value |-> 0]

\* int(x): the value, or the exception int() raises.
int(x) ==
    CASE x.kind = "null" -> [exc |-> "TypeError", value |-> 0]
      [] x.kind = "inf" -> [exc |-> "OverflowError", value |-> 0]
      [] x.kind = "int" -> [exc |-> "", value |-> x.num]
      [] x.kind = "str" ->
            LET body == strip(x.str)
                signed == Len(body) > 0 /\ body[1] \in {"+", "-"}
                ds == IF signed THEN Tail(body) ELSE body
            IN  IF Len(ds) > 0 /\ \A i \in 1..Len(ds) : IsDigit(ds[i])
                THEN [exc |-> "",
                      value |-> IF signed /\ body[1] = "-"
                              THEN 0 - DigitsValue(ds) ELSE DigitsValue(ds)]
                ELSE [exc |-> "ValueError", value |-> 0]

----------------------------------------------------------------------------
(* json.dumps / json.loads of the app list, over a token stream *)

Punct(p) == [digits |-> <<>>, text |-> p, tok |-> "punct"]

StrTok(x) == [digits |-> <<>>, text |-> x, tok |-> "str"]

NumTok(n) == [digits |-> Digits(n), text |-> "", tok |-> "num"]

DumpsEntry(e) ==
    << Punct("{"),
       StrTok("pid"), Punct(":"), NumTok(e.pid), Punct(","),
       StrTok("process_name"), Punct(":"), StrTok(e.process_name), Punct(","),
       StrTok("window_title"), Punct(":"), StrTok(e.window_title),
       Punct("}") >>

RECURSIVE DumpsItems(_)
DumpsItems(lst) ==
    IF Len(lst) = 0 THEN <<>>
    ELSE IF Len(lst) = 1 THEN DumpsEntry(lst[1])
    ELSE DumpsEntry(lst[1]) \o <<Punct(",")>> \o DumpsItems(Tail(lst))

\* json.dumps(lst, ensure_ascii=False)
dumps(lst) == <<Punct("[")>> \o DumpsItems(lst) \o <<Punct("]")>>

ParseFail == [next |-> 0, ok |-> FALSE, value |-> <<>>]

IsTok(toks, i, tok) == i <= Len(toks) /\ toks[i] = tok

\* A scalar at position i: a number or a string.
ParseScalar(toks, i) ==
    IF i > Len(toks) THEN ParseFail
    ELSE IF toks[i].tok = "num" /\ Len(toks[i].digits) > 0
         THEN [next |-> i + 1, ok |-> TRUE, value |-> DigitsValue(toks[i].digits)]
    ELSE IF toks[i].tok = "str"
         THEN [next |-> i + 1, ok |-> TRUE, value |-> toks[i].text]
    ELSE ParseFail

RECURSIVE ParseMembers(_, _, _)
\* key : scalar ( , key : scalar )* }   with the members read so far in acc
ParseMembers(toks, i, acc) ==
    IF i + 1 > Len(toks) \/ toks[i].tok # "str" \/ toks[i + 1] # Punct(":")
    THEN ParseFail
    ELSE LET v == ParseScalar(toks, i + 2)
         IN  IF ~v.ok THEN ParseFail
             ELSE LET key == toks[i].text
                      obj == [k \in DOMAIN acc \cup {key} |->
                                 IF k = key THEN v.value ELSE acc[k]]
                  IN  IF IsTok(toks, v.next, Punct("}"))
                      THEN [next |-> v.next + 1, ok |-> TRUE, value |-> obj]
                      ELSE IF IsTok(toks, v.next, Punct(","))
                      THEN ParseMembers(toks, v.next + 1, obj)
                      ELSE ParseFail

ParseObject(toks, i) ==
    IF ~IsTok(toks, i, Punct("{")) THEN ParseFail
    ELSE IF IsTok(toks, i + 1, Punct("}"))
         THEN [next |-> i + 2, ok |-> TRUE, value |-> <<>>]
    ELSE ParseMembers(toks, i + 1, <<>>)

RECURSIVE ParseItems(_, _, _)
\* object ( , object )* ]   with the items read so far in acc
ParseItems(toks, i, acc) ==
    LET o == ParseObject(toks, i)
    IN  IF ~o.ok THEN ParseFail
        ELSE IF IsTok(toks, o.next, Punct("]"))
             THEN [next |-> o.next + 1, ok |-> TRUE, value |-> Append(acc, o.value)]
        ELSE IF IsTok(toks, o.next, Punct(","))
             THEN ParseItems(toks, o.next + 1, Append(acc, o.value))
        ELSE ParseFail

\* json.loads(apps_json): ok is FALSE where json.loads raises.
loads(toks) ==
    IF ~IsTok(toks, 1, Punct("[")) THEN ParseFail
    ELSE LET r == IF IsTok(toks, 2, Punct("]"))
                  THEN [next |-> 3, ok |-> TRUE, value |-> <<>>]
                  ELSE ParseItems(toks, 2, <<>>)
         IN  IF r.ok /\ r.next = Len(toks) + 1 THEN r ELSE ParseFail


----------------------------------------------------------------------------
(* Requests and responses *)

Tables == {"activity", "heart_rate", "phone_status"}

PostEndpoints == {"POST /api/status", "POST /api/heartrate", "POST /api/phone_status"}

\* The table a handler works on.
TableOf(endpoint) ==
    CASE endpoint \in {"POST /api/status", "GET /api/current"} -> "activity"
      [] endpoint \in {"POST /api/heartrate", "GET /api/latest_heartrate",
                       "GET /api/heartrate_history"} -> "heart_rate"
      [] endpoint \in {"POST /api/phone_status", "GET /api/phone_latest"} -> "phone_status"

(* A request body.  shape says what the bytes are:                         *)
(*   "malformed"  not JSON at all                                          *)
(*   "null"       JSON that is not an object and is falsy: null, [], 0     *)
(*   "array"      JSON that is not an object and is truthy: [1], "x", 5    *)
(*   "object"     a JSON object with the fields below; a missing key and   *)
(*                a null value are both None                               *)
EmptyObject ==
    [active |-> None, app |-> None, apps |-> None, battery |-> JNull,
     locked |-> None, rate |-> JNull, shape |-> "object", source |-> None,
     timestamp |-> None, token |-> None]

NoResponse == [code |-> 0, json |-> [pending |-> TRUE]]

jsonify(code, json) == [code |-> code, json |-> json]

\* What Flask answers when a handler lets an exception escape.
InternalServerError == [code |-> 500, json |-> [html |-> "Internal Server Error"]]

Unauthorized == jsonify(401, [error |-> "unauthorized"])

InvalidJson == jsonify(400, [error |-> "invalid json"])

InvalidRate == jsonify(400, [error |-> "invalid rate"])

DbError == jsonify(500, [error |-> "db error"])

\* A worker slot with no request.
Idle ==
    [at |-> 0, body |-> EmptyObject, body_read |-> FALSE, conn |-> "none",
     cursor |-> "none", endpoint |-> "", header |-> None, pc |-> "idle",
     resp |-> NoResponse, row |-> None]

----------------------------------------------------------------------------
(* AuthGate *)

\* An AuthGate that looks in the body first and in the header only when the
\* body carries no token.
check_token_body_first(header, body) ==
    LET isDict == body.shape \in {"object", "malformed", "null"}
        inBody == IF body.shape = "object" THEN body.token ELSE None
        token == IF Truthy(inBody) THEN inBody ELSE header
    IN  [ok |-> isDict /\ token = Some(SECRET_TOKEN),
         raised |-> ~isDict,
         read |-> TRUE]

(* check_token_from_request.  header is request.headers.get("X-Auth-Token"). *)
(* raised: the call let an exception escape (data.get on a value that is     *)
(* not a dict); read: the body was consulted; ok: the return value.          *)
check_token_from_request(header, body) ==
    LET read == ~Truthy(header)
        \* request.get_json(silent=True) or {}
        isDict == body.shape \in {"object", "malformed", "null"}
        token == IF ~read THEN header
                 ELSE IF body.shape = "object" THEN body.token ELSE None
    IN  [ok |-> (read => isDict) /\ token = Some(SECRET_TOKEN),
         raised |-> read /\ ~isDict,
         read |-> read]

(* The start of every POST handler: the token check, then                  *)
(* request.get_json(force=True).  proceed holds when the handler goes on   *)
(* with data a dict; otherwise resp is what the request ends with.         *)
PostPrefix(header, body) ==
    LET a == check_token_from_request(header, body)
    IN  IF a.raised THEN [proceed |-> FALSE, read |-> a.read, resp |-> InternalServerError]
        ELSE IF ~a.ok THEN [proceed |-> FALSE, read |-> a.read, resp |-> Unauthorized]
        ELSE IF body.shape = "malformed"
             THEN [proceed |-> FALSE, read |-> a.read, resp |-> InvalidJson]
        \* data.get(...) on None or on a list: AttributeError, uncaught
        ELSE IF body.shape # "object"
             THEN [proceed |-> FALSE, read |-> a.read, resp |-> InternalServerError]
        ELSE [proceed |-> TRUE, read |-> a.read, resp |-> NoResponse]

\* The request as a handler leaves it when it returns before touching the store.
Returned(endpoint, header, body, read, resp) ==
    [Idle EXCEPT !.pc = "done", !.endpoint = endpoint, !.header = header,
                 !.body = body, !.body_read = read, !.resp = resp]

\* The request as a POST handler leaves it on reaching get_db_connection();
\* now is what datetime.utcnow() returned.
Connecting(endpoint, header, body, now, read, row) ==
    [Idle EXCEPT !.pc = "insert", !.endpoint = endpoint, !.header = header,
                 !.body = body, !.at = now, !.body_read = read, !.row = row]

----------------------------------------------------------------------------
(* The POST handlers up to the store: what they insert *)

\* A row stamped with the timestamp of the payload, when it has one.
update_status_row_client_time(body, now) ==
    LET data_active == body.active
        data_apps == IF body.apps = None THEN <<>> ELSE body.apps[1]
    IN  [active_process |-> IF data_active = None THEN None ELSE Some(data_active[1].process_name),
         active_title |-> IF data_active = None THEN None ELSE Some(data_active[1].window_title),
         apps_json |-> dumps(data_apps),
         created_at |-> IF body.timestamp = None THEN now ELSE body.timestamp[1]]

\* update_status: the row (without its id) that the handler will insert.
update_status_row(body, now) ==
    LET data_active == body.active          \* data.get("active") or {}
        data_apps == IF body.apps = None THEN <<>> ELSE body.apps[1]    \* ... or []
    IN  [active_process |-> IF data_active = None THEN None ELSE Some(data_active[1].process_name),
         active_title |-> IF data_active = None THEN None ELSE Some(data_active[1].window_title),
         apps_json |-> dumps(data_apps),
         created_at |-> now]

update_status_begin(header, body, now) ==
    LET p == PostPrefix(header, body)
    IN  IF ~p.proceed
        THEN Returned("POST /api/status", header, body, p.read, p.resp)
        ELSE Connecting("POST /api/status", header, body, now, p.read,
                        Some(update_status_row(body, now)))

heartrate_begin(header, body, now) ==
    LET p == PostPrefix(header, body)
        rate == int(body.rate)
        source == IF body.source = None THEN "shortcut" ELSE body.source[1]
    IN  IF ~p.proceed
        THEN Returned("POST /api/heartrate", header, body, p.read, p.resp)
        ELSE IF rate.exc \in {"TypeError", "ValueError"}
        THEN Returned("POST /api/heartrate", header, body, p.read, InvalidRate)
        ELSE IF rate.exc # ""
        THEN Returned("POST /api/heartrate", header, body, p.read, InternalServerError)
        ELSE Connecting("POST /api/heartrate", header, body, now, p.read,
                        Some([created_at |-> now, rate |-> rate.value, source |-> source]))

phone_status_begin(header, body, now) ==
    LET p == PostPrefix(header, body)
        battery == int(body.battery)
        source == IF body.source = None THEN "iphone" ELSE body.source[1]
    IN  IF ~p.proceed
        THEN Returned("POST /api/phone_status", header, body, p.read, p.resp)
        ELSE Connecting("POST /api/phone_status", header, body, now, p.read,
                        Some([app |-> body.app,
                              battery |-> IF battery.exc = "" THEN Some(battery.value) ELSE None,
                              created_at |-> now,
                              locked |-> body.locked,
                              source |-> source]))


----------------------------------------------------------------------------
(* The store: queries *)

RECURSIVE OrderByCreatedAtDescLimit(_, _)
\* The rows, latest created_at first (among equals, lowest id first).
OrderByCreatedAtDescLimit(rows, n) ==
    IF rows = {} \/ n = 0 THEN <<>>
    ELSE LET top == CHOOSE x \in rows : \A y \in rows :
                        \/ y.created_at < x.created_at
                        \/ y.created_at = x.created_at /\ x.id <= y.id
         IN  <<top>> \o OrderByCreatedAtDescLimit(rows \ {top}, n - 1)

RECURSIVE OrderByIdDescLimit(_, _)
\* SELECT ... ORDER BY id DESC LIMIT n: the rows, highest id first.
OrderByIdDescLimit(rows, n) ==
    IF rows = {} \/ n = 0 THEN <<>>
    ELSE LET top == CHOOSE x \in rows : \A y \in rows : y.id <= x.id
         IN  <<top>> \o OrderByIdDescLimit(rows \ {top}, n - 1)

\* cursor.fetchone(): the first row of the result, or None.
fetchone(result) == IF Len(result) = 0 THEN None ELSE Some(result[1])

\* get_current, from the fetched row on.
get_current_response(row) ==
    IF row = None THEN jsonify(200, [status |-> "no data yet"])
    ELSE LET parsed == loads(row[1].apps_json)
             parsed_apps == IF parsed.ok THEN parsed.value ELSE <<>>
         IN  jsonify(200, [active |-> [process_name |-> row[1].active_process,
                                       window_title |-> row[1].active_title],
                           apps |-> parsed_apps,
                           timestamp |-> strftime(row[1].created_at)])

\* latest_heartrate, from the fetched row on.
latest_heartrate_response(row) ==
    IF row = None THEN jsonify(200, [status |-> "no data"])
    ELSE jsonify(200, [rate |-> row[1].rate, timestamp |-> strftime(row[1].created_at)])

\* heartrate_history, from the fetched rows on.
heartrate_history_response(rows) ==
    IF Len(rows) = 0 THEN jsonify(200, [points |-> <<>>])
    ELSE LET ordered == Reverse(rows)       \* rows[::-1]
         IN  jsonify(200, [points |->
                 [i \in 1..Len(ordered) |->
                     [rate |-> ordered[i].rate,
                      timestamp |-> strftime(ordered[i].created_at)]]])

\* phone_latest, from the fetched row on.
phone_latest_response(row) ==
    IF row = None THEN jsonify(200, [status |-> "no data"])
    ELSE jsonify(200, [app |-> row[1].app,
                       battery |-> row[1].battery,
                       locked |-> row[1].locked,
                       timestamp |-> strftime(row[1].created_at)])

\* The SELECT of a GET handler and the response it builds from the result.
Query(endpoint, rows) ==
    CASE endpoint = "GET /api/current" ->
            get_current_response(fetchone(OrderByIdDescLimit(rows, 1)))
      [] endpoint = "GET /api/latest_heartrate" ->
            latest_heartrate_response(fetchone(OrderByIdDescLimit(rows, 1)))
      [] endpoint = "GET /api/heartrate_history" ->
            heartrate_history_response(OrderByIdDescLimit(rows, limit))
      [] endpoint = "GET /api/phone_latest" ->
            phone_latest_response(fetchone(OrderByIdDescLimit(rows, 1)))

\* The success response of a POST handler.
PostOk(endpoint) ==
    IF endpoint = "POST /api/status" THEN jsonify(200, [ok |-> TRUE])
    ELSE jsonify(200, [status |-> "ok"])

----------------------------------------------------------------------------
(* The handlers as steps.  What a request does that no other request can   *)
(* see (checking the token, parsing, opening its own connection and        *)
(* cursor, closing them) is taken together with the next thing it does     *)
(* that others can see: reading the clock, the INSERT, the COMMIT, the     *)
(* SELECT.  Any store call may raise; the handler then runs its except     *)
(* and finally blocks and returns.                                         *)

(* The handles q holds when the store call `fault` raises, the calls       *)
(* before it having succeeded ("none": no call of the step raises).        *)
Acquire(q, fault) ==
    [q EXCEPT !.conn = IF fault = "connect" THEN @ ELSE "open",
              !.cursor = IF fault \in {"connect", "cursor"} THEN @ ELSE "open"]

\* A finally block that closes the cursor and leaves the connection.
finally_cursor_only(q) ==
    [q EXCEPT !.cursor = IF @ = "open" THEN "closed" ELSE @]

\* The finally block: close the cursor and the connection if they were opened.
finally(q) ==
    [q EXCEPT !.cursor = IF @ = "open" THEN "closed" ELSE @,
              !.conn = IF @ = "open" THEN "closed" ELSE @]

\* The connections q holds open.
Held(q) == IF q.conn = "open" THEN 1 ELSE 0

\* A handler that swallows the exception and returns as if nothing had failed.
Swallowed(q) == [finally(q) EXCEPT !.pc = "done", !.resp = jsonify(200, [status |-> "ok"])]

\* The except block, the finally block and the return of a handler.
Failed(q) == [finally(q) EXCEPT !.pc = "done", !.resp = DbError]

\* Worker r's request becomes q.
Step(r, q) ==
    /\ req' = [req EXCEPT ![r] = q]
    /\ connections' = connections - Held(req[r]) + Held(q)

(* A POST arrives at the lowest free worker and runs up to its first store *)
(* call (q is the request there).  now is what datetime.utcnow() returned, *)
(* if the handler got as far as calling it; clock is the last reading      *)
(* taken of the server's clock.                                            *)
Arrive(r, q, now) ==
    /\ req[r].pc = "idle"
    /\ \A r2 \in Slots : r2 < r => req[r2].pc # "idle"
    /\ q.pc = "insert" => quota > 0
    /\ req' = [req EXCEPT ![r] = q]
    /\ clock' = IF q.pc = "insert" THEN now ELSE clock
    /\ quota' = IF q.pc = "insert" THEN quota - 1 ELSE quota
    /\ UNCHANGED <<db, next_id, connections, journal, last_done, client_vars>>

\* The readings of a wall clock that may also be set back (an NTP correction).
AnyTime == 0..MaxClock

\* POST /api/status, up to the store.
update_status(r, Hs, Bs, Times) ==
    \E h \in Hs, b \in Bs, now \in Times : Arrive(r, update_status_begin(h, b, now), now)

\* POST /api/heartrate, up to the store.
heartrate(r, Hs, Bs, Times) ==
    \E h \in Hs, b \in Bs, now \in Times : Arrive(r, heartrate_begin(h, b, now), now)

\* POST /api/phone_status, up to the store.
phone_status(r, Hs, Bs, Times) ==
    \E h \in Hs, b \in Bs, now \in Times : Arrive(r, phone_status_begin(h, b, now), now)

\* The columns of table t: those of the INSERT statements, and the id.
Columns(t) ==
    CASE t = "activity" ->
            {"id", "created_at", "active_process", "active_title", "apps_json"}
      [] t = "heart_rate" -> {"id", "created_at", "rate", "source"}
      [] t = "phone_status" -> {"id", "created_at", "locked", "battery", "app", "source"}

\* A row that gets the id 1 whatever the table holds.
InsertedWithoutNewId(row, id) ==
    [c \in DOMAIN row \cup {"id"} |-> IF c = "id" THEN 1 ELSE row[c]]

\* The row as the table holds it: the inserted columns and the id that the
\* AUTO_INCREMENT column gives it.
Inserted(row, id) ==
    [c \in DOMAIN row \cup {"id"} |-> IF c = "id" THEN id ELSE row[c]]

(* conn = get_db_connection(); cursor = conn.cursor();                     *)
(* cursor.execute("INSERT ..."): the row gets its id; it is not yet        *)
(* committed.                                                              *)
execute_insert(r) ==
    /\ req[r].pc = "insert"
    /\ LET t == TableOf(req[r].endpoint)
       IN  \/ /\ Step(r, [Acquire(req[r], "none") EXCEPT
                            !.pc = "commit",
                            !.row = Some(Inserted(req[r].row[1], next_id[t]))])
              /\ next_id' = [next_id EXCEPT ![t] = @ + 1]
           \/ /\ \E fault \in {"connect", "cursor", "execute"} :
                    Step(r, Failed(Acquire(req[r], fault)))
              /\ UNCHANGED next_id
    /\ UNCHANGED <<db, clock, journal, last_done, quota, client_vars>>

(* conn.commit(), then the finally block and the return.  A commit that    *)
(* raises has either not reached the store, and the insert is rolled back  *)
(* when the connection closes, or it has been applied and the connection   *)
(* was lost before the store's reply came back.                            *)
conn_commit(r) ==
    /\ req[r].pc = "commit"
    /\ LET t == TableOf(req[r].endpoint)
           row == req[r].row[1]
       IN  \/ /\ db' = [db EXCEPT ![t] = @ \cup {row}]
              /\ Step(r, [finally(req[r]) EXCEPT !.pc = "done",
                                                 !.resp = PostOk(req[r].endpoint)])
              /\ IF t = "activity"
                 THEN /\ journal' = [i \in DOMAIN journal \cup {row.id} |->
                                        IF i = row.id
                                        THEN [at |-> req[r].at, body |-> req[r].body]
                                        ELSE journal[i]]
                      /\ last_done' = row.id
                 ELSE UNCHANGED <<journal, last_done>>
           \/ /\ \E applied \in BOOLEAN :
                    db' = IF applied THEN [db EXCEPT ![t] = @ \cup {row}] ELSE db
              /\ Step(r, Failed(req[r]))
              /\ UNCHANGED <<journal, last_done>>
    /\ UNCHANGED <<next_id, clock, quota, client_vars>>

(* A GET handler: connect, cursor, SELECT, fetch, the finally block and    *)
(* the return.                                                             *)
Select(r, endpoint) ==
    /\ req[r].pc = "idle"
    /\ \A r2 \in Slots : r2 < r => req[r2].pc # "idle"
    /\ LET q == [Idle EXCEPT !.endpoint = endpoint]
       IN  \/ Step(r, [finally(Acquire(q, "none")) EXCEPT
                          !.pc = "done",
                          !.resp = Query(endpoint, db[TableOf(endpoint)])])
           \/ \E fault \in {"connect", "cursor", "execute"} :
                 Step(r, Failed(Acquire(q, fault)))
    /\ UNCHANGED <<db, next_id, clock, journal, last_done, quota, client_vars>>

\* GET /api/current
get_current(r) == Select(r, "GET /api/current")

\* GET /api/latest_heartrate
latest_heartrate(r) == Select(r, "GET /api/latest_heartrate")

\* GET /api/heartrate_history
heartrate_history(r) == Select(r, "GET /api/heartrate_history")

\* GET /api/phone_latest
phone_latest(r) == Select(r, "GET /api/phone_latest")

\* The response has gone out; the worker takes the next request.
Respond(r) ==
    /\ req[r].pc = "done"
    /\ req' = [req EXCEPT ![r] = Idle]
    /\ UNCHANGED <<db, next_id, connections, clock, journal, last_done, quota, client_vars>>

ServerInit ==
    /\ db = [t \in Tables |-> {}]
    /\ next_id = [t \in Tables |-> 1]
    /\ connections = 0
    /\ clock = 0
    /\ req = [r \in Slots |-> Idle]
    /\ journal = <<>>
    /\ last_done = 0
    /\ quota = MaxRows

----------------------------------------------------------------------------
(* The capture agent: strings *)

\* The characters the window titles and process names are made of, in
\* code-point order.
Ascii ==
    <<" ", "-", ".",
      "A", "B", "C", "D", "E", "F", "G", "H", "I", "J", "K", "L", "M",
      "N", "O", "P", "Q", "R", "S", "T", "U", "V", "W", "X", "Y", "Z",
      "_",
      "a", "b", "c", "d", "e", "f", "g", "h", "i", "j", "k", "l", "m",
      "n", "o", "p", "q", "r", "s", "t", "u", "v", "w", "x", "y", "z">>

\* The code point of c, as far as comparisons go.
ord(c) == CHOOSE i \in 1..Len(Ascii) : Ascii[i] = c

\* str.lower() on one character: "A".."Z" are 27 places before "a".."z".
LowerChar(c) == IF ord("A") <= ord(c) /\ ord(c) <= ord("Z") THEN Ascii[ord(c) + 27] ELSE c

\* str.lower()
lower(s) == [i \in 1..Len(s) |-> LowerChar(s[i])]

\* s < t on strings: s is a proper prefix of t, or s has the smaller
\* character where they first differ.
StrLess(s, t) ==
    \E k \in 1..Len(t) :
        /\ k <= Len(s) + 1
        /\ \A i \in 1..(k - 1) : s[i] = t[i]
        /\ \/ k = Len(s) + 1
           \/ k <= Len(s) /\ ord(s[k]) < ord(t[k])

\* A sort key that tells upper case from lower case.
SortKeyAsWritten(x) == x.process_name

\* The sort key of get_open_apps: lambda x: x["process_name"].lower()
SortKey(x) == lower(x.process_name)

\* The list with x put after the entries whose key is not greater than x's.
SortedInsert(xs, x) ==
    LET n == Cardinality({i \in 1..Len(xs) : ~StrLess(SortKey(x), SortKey(xs[i]))})
    IN  SubSeq(xs, 1, n) \o <<x>> \o SubSeq(xs, n + 1, Len(xs))

RECURSIVE sort(_)
\* list.sort(key=...): ascending by key, entries of equal key in their
\* original order.
sort(xs) ==
    IF Len(xs) = 0 THEN <<>>
    ELSE SortedInsert(sort(SubSeq(xs, 1, Len(xs) - 1)), xs[Len(xs)])

Unknown == <<"U", "n", "k", "n", "o", "w", "n">>

AccessDenied == <<"A", "c", "c", "e", "s", "s", "D", "e", "n", "i", "e", "d">>

\* The process names get_open_apps leaves out.
system_like ==
    { <<"s", "v", "c", "h", "o", "s", "t", ".", "e", "x", "e">>,
      <<"S", "y", "s", "t", "e", "m", " ", "I", "d", "l", "e", " ",
        "P", "r", "o", "c", "e", "s", "s">>,
      <<"S", "y", "s", "t", "e", "m">>,
      <<"S", "e", "a", "r", "c", "h", "A", "p", "p", ".", "e", "x", "e">>,
      <<"R", "u", "n", "t", "i", "m", "e", "B", "r", "o", "k", "e", "r", ".", "e", "x", "e">> }

----------------------------------------------------------------------------
(* The capture agent: exceptions *)

(* isinstance(exc, class) for the exceptions of the model.                 *)
(* KeyboardInterrupt derives from BaseException, not from Exception;       *)
(* psutil.ZombieProcess derives from psutil.NoSuchProcess; the exceptions  *)
(* of requests, psutil and pywin32 derive from Exception.                  *)
IsInstance(exc, class) ==
    CASE class = "BaseException" -> TRUE
      [] class = "Exception" -> exc # "KeyboardInterrupt"
      [] class = "NoSuchProcess" -> exc \in {"NoSuchProcess", "ZombieProcess"}
      [] OTHER -> exc = class

\* An except clause that catches nothing.
CatchesNothing(exc) == FALSE

\* An except clause that catches whatever is raised.
CatchesAnything(exc) == TRUE

\* main_loop, "except Exception as e:" around requests.post
InnerCatches(exc) == IsInstance(exc, "Exception")

\* main_loop, "except KeyboardInterrupt:" around the loop
OuterCatches(exc) == IsInstance(exc, "KeyboardInterrupt")

\* The places of main_loop inside its "while True".
LoopPlaces == {"Probe", "Enumerate", "Callback", "Post", "Sleep"}

(* Where main_loop is after exc is raised at place: caught around the      *)
(* post, the loop goes on to the sleep; caught around the loop, main_loop  *)
(* returns; caught nowhere, the exception leaves main_loop and ends the    *)
(* program.                                                                *)
Raise(place, exc) ==
    IF place = "Post" /\ InnerCatches(exc) THEN "Sleep"
    ELSE IF place \in LoopPlaces /\ OuterCatches(exc) THEN "Stopped"
    ELSE "Crashed"

\* main_loop has ended, by returning or by an exception that left it.
Ended(place) == place \in {"Stopped", "Crashed"}

\* The Reporter's state, in the terms of its state machine.
ReporterState ==
    CASE pc = "Idle" -> "Idle"
      [] pc \in {"Probe", "Enumerate", "Callback"} -> "Capturing"
      [] pc = "Post" -> "Transmitting"
      [] pc = "Sleep" -> "Sleeping"
      [] pc = "Stopped" -> "Stopped"
      [] OTHER -> "Crashed"

----------------------------------------------------------------------------
(* The capture agent: the windows of the desktop *)

\* What psutil.Process(pid).name() does: returns name, or raises exc.
Named(name) == [exc |-> "", name |-> name]

Raises(exc) == [exc |-> exc, name |-> <<>>]

(* A top-level window as the win32 calls show it: IsWindowVisible,         *)
(* GetWindowText, GetWindowRect (left, top, right, bottom),                *)
(* GetWindowThreadProcessId, and the lookup of its process.  gone: the     *)
(* window is destroyed while the callback handles it, after its title was  *)
(* read; GetWindowRect then raises pywintypes.error (invalid handle).      *)
Window(hwnd, visible, title, rect, pid, proc, gone) ==
    [gone |-> gone, hwnd |-> hwnd, pid |-> pid, proc |-> proc, rect |-> rect,
     title |-> title, visible |-> visible]

a_exe == <<"a", ".", "e", "x", "e">>

B_exe == <<"B", ".", "e", "x", "e">>

WindowPool ==
    { Window(1, TRUE, <<"a", "b">>, <<0, 0, 100, 50>>, 7, Named(a_exe), FALSE),
      Window(2, TRUE, <<"a", "b", "c">>, <<10, 10, 300, 200>>, 7, Named(a_exe), FALSE),
      Window(3, TRUE, <<"x", "y">>, <<0, 0, 300, 200>>, 7, Named(a_exe), FALSE),
      Window(4, TRUE, <<"Z">>, <<0, 0, 300, 200>>, 9, Named(B_exe), FALSE),
      Window(5, FALSE, <<"h">>, <<0, 0, 300, 200>>, 9, Named(B_exe), FALSE),
      Window(6, TRUE, <<" ">>, <<0, 0, 300, 200>>, 9, Named(B_exe), FALSE),
      Window(7, TRUE, <<"s">>, <<0, 0, 99, 50>>, 9, Named(B_exe), FALSE),
      Window(8, TRUE, <<"t">>, <<0, 0, 300, 200>>, 4,
             Named(<<"s", "v", "c", "h", "o", "s", "t", ".", "e", "x", "e">>), FALSE),
      Window(9, TRUE, <<"u">>, <<0, 0, 300, 200>>, 5, Raises("AccessDenied"), FALSE),
      Window(10, TRUE, <<"g">>, <<0, 0, 300, 200>>, 9, Named(B_exe), TRUE),
      Window(12, TRUE, <<"l", "o", "n", "g">>, <<5, 5, 305, 54>>, 7, Named(a_exe), FALSE) }

\* The window lists EnumWindows can go through: up to MaxWindows windows of
\* the pool, each window once.
RawLists ==
    UNION { { ws \in [1..n -> WindowPool] : \A i, j \in 1..n : i # j => ws[i] # ws[j] }
            : n \in 0..MaxWindows }

\* What GetForegroundWindow finds: no window (hwnd 0), or a window.
Foregrounds ==
    { None,
      Some(Window(1, TRUE, <<"a", "b">>, <<0, 0, 100, 50>>, 7, Named(a_exe), FALSE)),
      Some(Window(9, TRUE, <<"u">>, <<0, 0, 300, 200>>, 5, Raises("AccessDenied"), FALSE)),
      Some(Window(11, TRUE, <<"v">>, <<0, 0, 300, 200>>, 6, Raises("ZombieProcess"), FALSE)) }

----------------------------------------------------------------------------
(* The capture agent: ActiveWindowProbe and WindowEnumerator *)

\* get_active_window_info
get_active_window_info(fg) ==
    IF fg = None THEN None
    ELSE LET w == fg[1]
             proc_name ==
                 IF w.proc.exc = "" THEN w.proc.name
                 ELSE IF IsInstance(w.proc.exc, "NoSuchProcess") THEN Unknown
                 ELSE AccessDenied
         IN  Some([hwnd |-> w.hwnd, pid |-> w.pid,
                   process_name |-> proc_name, window_title |-> w.title])

\* A dict key that tells the windows apart.
HwndKey(hwnd, pid) == hwnd

\* The key of apps_by_pid for a window.
DictKey(hwnd, pid) == pid

\* key in d
HasKey(d, key) == \E i \in 1..Len(d) : d[i].key = key

\* The place of key in d.
IndexOf(d, key) == CHOOSE i \in 1..Len(d) : d[i].key = key

\* list(d.values())
values(d) == [i \in 1..Len(d) |-> d[i].value]

\* GetWindowRect(hwnd) raises for w: the callback got as far as calling it
\* and the window is gone.
GetWindowRectRaises(w) == w.visible /\ Len(strip(w.title)) # 0 /\ w.gone

\* A size test that discards only what is small both ways.
TooSmallBothWays(width, height) == width < 100 /\ height < 50

\* enum_window_callback, "if width < 100 or height < 50: return"
TooSmall(width, height) == width < 100 \/ height < 50

\* A comparison that lets a title of the same length replace the one kept.
NotShorter(title, kept) == Len(title) >= Len(kept)

\* enum_window_callback, "if len(title) > len(apps_by_pid[pid]["window_title"])"
Longer(title, kept) == Len(title) > Len(kept)

\* enum_window_callback for a window whose calls all return: the dict after it.
enum_window_callback(d, w) ==
    IF ~w.visible THEN d
    ELSE IF Len(strip(w.title)) = 0 THEN d
    ELSE LET width == w.rect[3] - w.rect[1]
             height == w.rect[4] - w.rect[2]
             proc_name ==
                 IF w.proc.exc \in {"NoSuchProcess", "AccessDenied", "ZombieProcess"}
                 THEN Unknown ELSE w.proc.name
             key == DictKey(w.hwnd, w.pid)
         IN  IF TooSmall(width, height) THEN d
             ELSE IF proc_name \in system_like THEN d
             ELSE IF ~HasKey(d, key)
             THEN Append(d, [key |-> key,
                             value |-> [pid |-> w.pid, process_name |-> proc_name,
                                        window_title |-> w.title]])
             ELSE IF Longer(w.title, d[IndexOf(d, key)].value.window_title)
             THEN [d EXCEPT ![IndexOf(d, key)].value.window_title = w.title]
             ELSE d

----------------------------------------------------------------------------
(* The capture agent: main_loop as steps.  The locals live as long as they *)
(* can be read: those of get_open_apps until it returns or is left by an   *)
(* exception, active, apps and the response of the post until the cycle    *)
(* they belong to is over.                                                 *)

\* The locals of get_open_apps and of main_loop's cycle are given up.
Forget ==
    /\ active' = None
    /\ apps' = <<>>
    /\ raw' = <<>>
    /\ visited' = 0
    /\ apps_by_pid' = <<>>
    /\ outcome' = "none"

\* main_loop goes on at place, or ends there.
Goto(place) ==
    /\ pc' = place
    /\ IF Ended(place) THEN Forget
       ELSE UNCHANGED <<active, apps, raw, visited, apps_by_pid, outcome>>

\* main_loop up to the first cycle: the interval, the two prints, the try.
main_loop ==
    /\ pc = "Idle"
    /\ pc' = "Probe"
    /\ UNCHANGED <<active, apps, raw, visited, apps_by_pid, outcome, cancelled, server_vars>>

\* active = get_active_window_info()
ActiveWindowProbe ==
    /\ pc = "Probe"
    /\ \E fg \in Foregrounds : active' = get_active_window_info(fg)
    /\ pc' = "Enumerate"
    /\ UNCHANGED <<apps, raw, visited, apps_by_pid, outcome, cancelled, server_vars>>

(* get_open_apps up to the first callback: the empty dict, and EnumWindows *)
(* taking the list of top-level windows; or EnumWindows raising            *)
(* pywintypes.error.                                                       *)
EnumWindows ==
    /\ pc = "Enumerate"
    /\ \/ /\ raw' \in RawLists
          /\ visited' = 0
          /\ apps_by_pid' = <<>>
          /\ pc' = "Callback"
          /\ UNCHANGED <<active, apps, outcome>>
       \/ Goto(Raise(pc, "pywintypes.error"))
    /\ UNCHANGED <<cancelled, server_vars>>

\* EnumWindows calls enum_window_callback for the next window.
VisitWindow ==
    /\ pc = "Callback"
    /\ visited < Len(raw)
    /\ LET w == raw[visited + 1]
       IN  IF GetWindowRectRaises(w)
           THEN Goto(Raise(pc, "pywintypes.error"))
           ELSE /\ apps_by_pid' = enum_window_callback(apps_by_pid, w)
                /\ visited' = visited + 1
                /\ pc' = pc
                /\ UNCHANGED <<active, apps, raw, outcome>>
    /\ UNCHANGED <<cancelled, server_vars>>

(* EnumWindows returns; get_open_apps makes the list of the dict's values, *)
(* sorts it and returns it, and main_loop builds the payload.              *)
get_open_apps ==
    /\ pc = "Callback"
    /\ visited = Len(raw)
    /\ apps' = sort(values(apps_by_pid))
    /\ raw' = <<>>
    /\ visited' = 0
    /\ apps_by_pid' = <<>>
    /\ pc' = "Post"
    /\ UNCHANGED <<active, outcome, cancelled, server_vars>>

\* How requests.post(..., timeout=5) can end: a response of some status, or
\* an exception of requests.
PostOutcomes == {"2xx", "non2xx", "ConnectionError", "Timeout"}

\* requests.post and the print that follows it, or the except clause.
requests_post ==
    /\ pc = "Post"
    /\ \E o \in PostOutcomes :
          /\ outcome' = o
          /\ pc' = IF o \in {"ConnectionError", "Timeout"} THEN Raise(pc, o) ELSE "Sleep"
    /\ UNCHANGED <<active, apps, raw, visited, apps_by_pid, cancelled, server_vars>>

\* time.sleep(interval_seconds), then the next cycle.
time_sleep ==
    /\ pc = "Sleep"
    /\ pc' = "Probe"
    /\ Forget
    /\ UNCHANGED <<cancelled, server_vars>>

(* The user interrupts the program (Ctrl-C): KeyboardInterrupt is raised   *)
(* in main_loop, wherever it is.                                           *)
KeyboardInterrupt ==
    /\ pc \in {"Idle"} \cup LoopPlaces
    /\ cancelled' = TRUE
    /\ Goto(Raise(pc, "KeyboardInterrupt"))
    /\ UNCHANGED server_vars

ClientInit ==
    /\ pc = "Idle"
    /\ active = None
    /\ apps = <<>>
    /\ raw = <<>>
    /\ visited = 0
    /\ apps_by_pid = <<>>
    /\ outcome = "none"
    /\ cancelled = FALSE

----------------------------------------------------------------------------
(* The requests the collector is driven with *)

NoHeader == None

EmptyHeader == Some("")

BadHeader == Some("bad")

GoodHeader == Some(SECRET_TOKEN)

Headers == {NoHeader, EmptyHeader, BadHeader, GoodHeader}

App1 == [pid |-> 12, process_name |-> "chrome.exe", window_title |-> "Tab"]

App2 == [pid |-> 7, process_name |-> "bash", window_title |-> "~"]

\* What get_active_window_info() returns for a foreground window.
Active1 == [hwnd |-> 100, pid |-> 12, process_name |-> "chrome.exe", window_title |-> "Tab"]

\* Bodies that are not a JSON object.
OddBodies ==
    { [EmptyObject EXCEPT !.shape = "malformed"],
      [EmptyObject EXCEPT !.shape = "null"],
      [EmptyObject EXCEPT !.shape = "array"] }

\* Payloads of the capture agent; timestamp is the client's own clock.
StatusPayloads ==
    { [EmptyObject EXCEPT !.active = Some(Active1), !.apps = Some(<<App2, App1>>),
                          !.timestamp = Some(7)],
      [EmptyObject EXCEPT !.apps = Some(<<>>), !.timestamp = Some(9)] }

HeartratePayloads ==
    { [EmptyObject EXCEPT !.rate = JInt(80)],
      [EmptyObject EXCEPT !.rate = JStr(<<" ", "7", "2">>), !.source = Some("watch")],
      [EmptyObject EXCEPT !.rate = JStr(<<"a", "b", "c">>)],
      [EmptyObject EXCEPT !.rate = JStr(<<"7", ".", "5">>)],
      [EmptyObject EXCEPT !.rate = JInf],
      EmptyObject }

PhonePayloads ==
    { [EmptyObject EXCEPT !.locked = Some("no"), !.battery = JInt(55), !.app = Some("Maps")],
      [EmptyObject EXCEPT !.locked = Some("yes"), !.battery = JStr(<<"a">>)] }

\* The payloads with and without a token in the body, and the odd bodies.
Bodies(Payloads) ==
    Payloads
    \cup { [b EXCEPT !.token = Some(t)] : b \in Payloads, t \in {"bad", SECRET_TOKEN} }
    \cup OddBodies

\* The store steps of worker r's POST handler, and its return.
StoreStep(r) ==
    \/ execute_insert(r)
    \/ conn_commit(r)
    \/ Respond(r)

(* Spec: one worker, so the requests come one after the other, to all     *)
(* seven endpoints, on a wall clock that may be set back between them.    *)
Next ==
    \/ update_status(1, {GoodHeader, BadHeader},
                     {[EmptyObject EXCEPT !.active = Some(Active1),
                                          !.apps = Some(<<App2, App1>>),
                                          !.timestamp = Some(7)]},
                     AnyTime)
    \/ heartrate(1, {GoodHeader},
                 {[EmptyObject EXCEPT !.rate = JInt(80)],
                  [EmptyObject EXCEPT !.rate = JStr(<<"a", "b", "c">>)]},
                 AnyTime)
    \/ phone_status(1, {GoodHeader},
                    {[EmptyObject EXCEPT !.locked = Some("no"), !.battery = JInt(55),
                                         !.app = Some("Maps")]},
                    AnyTime)
    \/ get_current(1)
    \/ latest_heartrate(1)
    \/ heartrate_history(1)
    \/ phone_latest(1)
    \/ StoreStep(1)

Init == ServerInit /\ ClientInit

Spec == Init /\ [][Next]_vars

(* SpecAuth: one worker, every combination of header and body, within one *)
(* tick of the clock (neither the AuthGate nor the validation reads it).   *)
NextAuth ==
    \/ update_status(1, Headers, Bodies(StatusPayloads), {clock})
    \/ heartrate(1, Headers, Bodies(HeartratePayloads), {clock})
    \/ phone_status(1, Headers, Bodies(PhonePayloads), {clock})
    \/ get_current(1)
    \/ latest_heartrate(1)
    \/ heartrate_history(1)
    \/ phone_latest(1)
    \/ StoreStep(1)

SpecAuth == Init /\ [][NextAuth]_vars

(* SpecRace: the workers handle POST /api/status and GET /api/current     *)
(* concurrently; the requests all fall within one tick of the clock,       *)
(* whatever it shows.                                                      *)
NextRace ==
    \/ \E r \in Slots : update_status(r, {GoodHeader}, StatusPayloads, {clock})
    \/ \E r \in Slots : get_current(r)
    \/ \E r \in Slots : StoreStep(r)

InitRace ==
    /\ clock \in AnyTime
    /\ db = [t \in Tables |-> {}]
    /\ next_id = [t \in Tables |-> 1]
    /\ connections = 0
    /\ req = [r \in Slots |-> Idle]
    /\ journal = <<>>
    /\ last_done = 0
    /\ quota = MaxRows
    /\ ClientInit

SpecRace == InitRace /\ [][NextRace]_vars

(* SpecHistory: one worker, POST /api/heartrate and GET                    *)
(* /api/heartrate_history, starting from a heart_rate table that earlier   *)
(* appends have filled to around the history window.                       *)

\* The heart_rate table after n appends: ids 1..n, each record with a rate of
\* its own and a created_at that does not follow the ids.
Seeded(n) ==
    { [created_at |-> (2 * i) % (MaxClock + 1), id |-> i, rate |-> 100 + i,
       source |-> "shortcut"] : i \in 1..n }

HistorySizes == (0..MaxRows) \cup ((limit - MaxRows)..(limit + MaxRows))

InitHistory ==
    /\ \E n \in HistorySizes :
          /\ db = [t \in Tables |-> IF t = "heart_rate" THEN Seeded(n) ELSE {}]
          /\ next_id = [t \in Tables |-> IF t = "heart_rate" THEN n + 1 ELSE 1]
    /\ connections = 0
    /\ clock = 0
    /\ req = [r \in Slots |-> Idle]
    /\ journal = <<>>
    /\ last_done = 0
    /\ quota = MaxRows
    /\ ClientInit

NextHistory ==
    \/ heartrate(1, {GoodHeader},
                 {[EmptyObject EXCEPT !.rate = JInt(80)],
                  [EmptyObject EXCEPT !.rate = JStr(<<" ", "7", "2">>), !.source = Some("watch")]},
                 AnyTime)
    \/ heartrate_history(1)
    \/ StoreStep(1)

SpecHistory == InitHistory /\ [][NextHistory]_vars

(* SpecStore: the workers handle concurrently the POSTs to the three       *)
(* endpoints, valid ones and ones that are rejected, and GET               *)
(* /api/heartrate_history, within one tick of the clock.                   *)
NextStore ==
    \/ \E r \in Slots :
          update_status(r, {GoodHeader, BadHeader},
                        {[EmptyObject EXCEPT !.apps = Some(<<App2>>)]}, {clock})
    \/ \E r \in Slots :
          heartrate(r, {GoodHeader},
                    {[EmptyObject EXCEPT !.rate = JInt(80)],
                     [EmptyObject EXCEPT !.rate = JStr(<<"a", "b", "c">>)]},
                    {clock})
    \/ \E r \in Slots :
          phone_status(r, {GoodHeader},
                       {[EmptyObject EXCEPT !.locked = Some("no"), !.battery = JInt(55)]},
                       {clock})
    \/ \E r \in Slots : heartrate_history(r)
    \/ \E r \in Slots : StoreStep(r)

SpecStore == Init /\ [][NextStore]_vars

(* SpecClock: the workers handle POST /api/heartrate and GET               *)
(* /api/heartrate_history concurrently, on a clock that never goes back:   *)
(* every reading is at least the one taken before it.                      *)
NextClock ==
    \/ \E r \in Slots :
          heartrate(r, {GoodHeader}, {[EmptyObject EXCEPT !.rate = JInt(80)]},
                    clock..MaxClock)
    \/ \E r \in Slots : heartrate_history(r)
    \/ \E r \in Slots : StoreStep(r)

SpecClock == Init /\ [][NextClock]_vars

(* SpecReporter: the capture agent alone, from the start of main_loop,     *)
(* over every window list of RawLists, with the user free to interrupt it  *)
(* at any time.                                                            *)
NextReporter ==
    \/ main_loop
    \/ ActiveWindowProbe
    \/ EnumWindows
    \/ VisitWindow
    \/ get_open_apps
    \/ requests_post
    \/ time_sleep
    \/ KeyboardInterrupt

SpecReporter == Init /\ [][NextReporter]_vars

(* SpecReporterFair: the same, and main_loop is not held up for ever: each *)
(* call it makes returns or raises, and the statement after it is run.     *)
(* Nothing makes the user interrupt it.                                    *)
Fairness ==
    /\ WF_vars(main_loop)
    /\ WF_vars(ActiveWindowProbe)
    /\ WF_vars(EnumWindows)
    /\ WF_vars(VisitWindow)
    /\ WF_vars(get_open_apps)
    /\ WF_vars(requests_post)
    /\ WF_vars(time_sleep)

SpecReporterFair == SpecReporter /\ Fairness

----------------------------------------------------------------------------
(* The properties *)

\* The worker's handler has just returned from a GET to endpoint whose SELECT
\* did not raise.
Answered(r, endpoint) ==
    /\ req[r].pc = "done"
    /\ req[r].endpoint = endpoint
    /\ req[r].resp # DbError

\* The record of the highest id in a non-empty table.
Newest(t) == CHOOSE x \in db[t] : \A y \in db[t] : y.id <= x.id

(* C1: whatever has been appended, a 'latest' query that reaches the store *)
(* answers with the record of the highest id of its table, whatever the    *)
(* created_at of the records (for the activity the active window, the      *)
(* stored app list and the rendered created_at of that record; for the     *)
(* heart rate its rate; for the phone its three fields), and with          *)
(* {status: "no data yet"} / {status: "no data"}, code 200, when the table *)
(* is empty.                                                               *)
C1_LatestIsHighestId ==
    /\ Answered(1, "GET /api/current") =>
          IF db["activity"] = {}
          THEN req[1].resp = [code |-> 200, json |-> [status |-> "no data yet"]]
          ELSE /\ req[1].resp.code = 200
               /\ req[1].resp.json.timestamp = strftime(Newest("activity").created_at)
               /\ req[1].resp.json.active.process_name = Newest("activity").active_process
               /\ req[1].resp.json.active.window_title = Newest("activity").active_title
               /\ dumps(req[1].resp.json.apps) = Newest("activity").apps_json
    /\ Answered(1, "GET /api/latest_heartrate") =>
          IF db["heart_rate"] = {}
          THEN req[1].resp = [code |-> 200, json |-> [status |-> "no data"]]
          ELSE /\ req[1].resp.code = 200
               /\ req[1].resp.json.timestamp = strftime(Newest("heart_rate").created_at)
               /\ req[1].resp.json.rate = Newest("heart_rate").rate
    /\ Answered(1, "GET /api/phone_latest") =>
          IF db["phone_status"] = {}
          THEN req[1].resp = [code |-> 200, json |-> [status |-> "no data"]]
          ELSE /\ req[1].resp.code = 200
               /\ req[1].resp.json.timestamp = strftime(Newest("phone_status").created_at)
               /\ req[1].resp.json.locked = Newest("phone_status").locked
               /\ req[1].resp.json.battery = Newest("phone_status").battery
               /\ req[1].resp.json.app = Newest("phone_status").app

\* C1 witness: the activity holds two records, the one of the lower id with
\* the later created_at, and GET /api/current has answered with the
\* timestamp of the other.
C1_Witness ==
    /\ Answered(1, "GET /api/current")
    /\ \E a, b \in db["activity"] :
          /\ a.id < b.id
          /\ strftime(a.created_at) > strftime(b.created_at)
          /\ req[1].resp.json.timestamp = strftime(b.created_at)

\* Worker 1 takes a POST: the step from the arrival of the request to the
\* handler's first store call, or to its return if it makes none.
PostArrives ==
    /\ req[1].pc = "idle"
    /\ req'[1].pc # "idle"
    /\ req'[1].endpoint \in PostEndpoints

\* The token field of a body, if the body is an object that has one.
BodyToken(body) == IF body.shape = "object" THEN body.token ELSE None

\* Neither the header nor the body token is the configured secret.
Mismatch(header, body) ==
    /\ header # Some(SECRET_TOKEN)
    /\ BodyToken(body) # Some(SECRET_TOKEN)

(* C2: a POST to any of the three endpoints whose header and body token    *)
(* both differ from the configured secret (or are missing) is answered     *)
(* 401 {error: "unauthorized"} and does nothing else, whatever the body    *)
(* is: no row, no id taken, no connection opened.                          *)
C2_MismatchIs401 ==
    [][ (PostArrives /\ Mismatch(req'[1].header, req'[1].body)) =>
            /\ req'[1].pc = "done"
            /\ req'[1].resp = [code |-> 401, json |-> [error |-> "unauthorized"]]
            /\ UNCHANGED <<db, next_id, connections>> ]_vars

\* The AuthGate turned the request away.
Rejected(q) == q.pc = "done" /\ q.resp = [code |-> 401, json |-> [error |-> "unauthorized"]]

(* C3 as stated: whenever the X-Auth-Token header is present (whatever its *)
(* value), the decision depends on the header alone (rejected exactly when *)
(* it differs from the secret) and the body is not consulted.              *)
C3_PresentHeaderDecides ==
    [][ (PostArrives /\ req'[1].header # None) =>
            /\ ~req'[1].body_read
            /\ Rejected(req'[1]) <=> req'[1].header # Some(SECRET_TOKEN) ]_vars

(* C3: whenever the X-Auth-Token header is present and not empty, the      *)
(* decision depends on the header alone (rejected exactly when it differs  *)
(* from the secret, even if the body token matches) and the body is not    *)
(* consulted; the body is consulted only when the header is absent or      *)
(* empty.                                                                  *)
C3_NonEmptyHeaderDecides ==
    [][ PostArrives =>
            /\ (req'[1].header \notin {None, Some("")}) =>
                  /\ ~req'[1].body_read
                  /\ Rejected(req'[1]) <=> req'[1].header # Some(SECRET_TOKEN)
            /\ req'[1].body_read => req'[1].header \in {None, Some("")} ]_vars

\* C3 witness: a request with a wrong header and the right token in the body
\* has been rejected without its body being read.
C3_Witness ==
    /\ req[1].endpoint \in PostEndpoints
    /\ req[1].header = Some("bad")
    /\ BodyToken(req[1].body) = Some(SECRET_TOKEN)
    /\ Rejected(req[1])
    /\ ~req[1].body_read

\* The request carries the secret where the AuthGate looks for it.
Authorized(q) ==
    \/ q.header = Some(SECRET_TOKEN)
    \/ q.header \in {None, Some("")} /\ BodyToken(q.body) = Some(SECRET_TOKEN)

\* A rate that is missing or null, or a string with a character that no
\* integer literal contains.
NotAnInteger(rate) ==
    \/ rate.kind = "null"
    \/ /\ rate.kind = "str"
       /\ \E i \in 1..Len(rate.str) :
             ~IsDigit(rate.str[i]) /\ ~IsSpace(rate.str[i]) /\ rate.str[i] \notin {"+", "-", "_"}

(* C4: an authorized POST /api/heartrate with a JSON object whose rate is  *)
(* missing, null or a non-numeric string is answered 400 {error: "invalid  *)
(* rate"} without reaching the store: no connection is opened, no id is    *)
(* taken and the tables are as they were.                                  *)
C4_BadRateIs400 ==
    [][ ( /\ PostArrives
          /\ req'[1].endpoint = "POST /api/heartrate"
          /\ Authorized(req'[1])
          /\ req'[1].body.shape = "object"
          /\ NotAnInteger(req'[1].body.rate) ) =>
            /\ req'[1].pc = "done"
            /\ req'[1].resp = [code |-> 400, json |-> [error |-> "invalid rate"]]
            /\ req'[1].row = None
            /\ UNCHANGED <<db, next_id, connections>> ]_vars

\* C4 witness: the heart_rate table holds a record and a POST with rate "abc"
\* has been answered 400.
C4_Witness ==
    /\ db["heart_rate"] # {}
    /\ req[1].endpoint = "POST /api/heartrate"
    /\ Authorized(req[1])
    /\ req[1].body.rate = JStr(<<"a", "b", "c">>)
    /\ req[1].pc = "done"
    /\ req[1].resp = [code |-> 400, json |-> [error |-> "invalid rate"]]

(* C5: GET /api/heartrate_history, when its SELECT does not raise, answers *)
(* 200 with exactly min(n, 40) points, n the number of records in          *)
(* heart_rate; the i-th point is made of the record that has exactly       *)
(* (number of points - i) records of a higher id above it, so the points   *)
(* are the min(n, 40) records of the highest ids, lowest id first; with    *)
(* n = 0 the list is empty.                                                *)
C5_HistoryWindow ==
    Answered(1, "GET /api/heartrate_history") =>
        LET rows == db["heart_rate"]
            points == req[1].resp.json.points
        IN  /\ req[1].resp.code = 200
            /\ Len(points) = Min(Cardinality(rows), 40)
            /\ \A i \in 1..Len(points) :
                  \E row \in rows :
                     /\ Cardinality({o \in rows : o.id > row.id}) = Len(points) - i
                     /\ points[i] = [rate |-> row.rate,
                                     timestamp |-> strftime(row.created_at)]

\* C5 witness: heart_rate holds more than 40 records, one of them appended by
\* a POST, and the history has been answered with 40 points, the last of
\* them the appended record.
C5_Witness ==
    /\ Answered(1, "GET /api/heartrate_history")
    /\ Cardinality(db["heart_rate"]) > 40
    /\ Len(req[1].resp.json.points) = 40
    /\ req[1].resp.json.points[40].rate \in {72, 80}

\* Worker r answers a GET /api/current whose SELECT does not raise.
GetCurrentAnswers(r) ==
    /\ req[r].pc = "idle"
    /\ req'[r].pc = "done"
    /\ req'[r].endpoint = "GET /api/current"
    /\ req'[r].resp # DbError

(* The response carries what the POST recorded in j carried: its active    *)
(* window's process_name and window_title (null when the payload had no    *)
(* active window), its app list, same order and same fields, and as        *)
(* timestamp the server's clock reading of that POST at one-second         *)
(* resolution, not the payload's timestamp.                                *)
Carries(resp, j) ==
    /\ resp.code = 200
    /\ resp.json.active.process_name =
          (IF j.body.active = None THEN None ELSE Some(j.body.active[1].process_name))
    /\ resp.json.active.window_title =
          (IF j.body.active = None THEN None ELSE Some(j.body.active[1].window_title))
    /\ resp.json.apps = (IF j.body.apps = None THEN <<>> ELSE j.body.apps[1])
    /\ resp.json.timestamp = j.at \div 2
    /\ Some(resp.json.timestamp) # j.body.timestamp

(* C6 as stated: once a POST /api/status has succeeded, a GET /api/current *)
(* answers with what the POST that returned last carried.                  *)
C6_RoundTripOfLastReturned ==
    [][ \A r \in Slots :
          (GetCurrentAnswers(r) /\ last_done # 0) =>
              Carries(req'[r].resp, journal[last_done]) ]_vars

(* C6: once a POST /api/status has succeeded, and the record of the POST   *)
(* that returned last has the highest id of the activity (no POST handled  *)
(* at the same time has committed a record of a higher id), a GET          *)
(* /api/current answers with what that POST carried: the same active       *)
(* window, the same app list in the same order, and the server's           *)
(* timestamp.                                                              *)
C6_RoundTripOfHighestId ==
    [][ \A r \in Slots :
          ( /\ GetCurrentAnswers(r)
            /\ last_done # 0
            /\ \A row \in db["activity"] : row.id <= last_done ) =>
              Carries(req'[r].resp, journal[last_done]) ]_vars

\* C6 witness: two POSTs have succeeded, the one that returned last with the
\* higher id, a two-app list and an active window, and a GET /api/current has
\* been answered with that list.
C6_Witness ==
    /\ Cardinality(db["activity"]) = 2
    /\ last_done # 0
    /\ \A row \in db["activity"] : row.id <= last_done
    /\ journal[last_done].body.apps = Some(<<App2, App1>>)
    /\ \E r \in Slots :
          /\ Answered(r, "GET /api/current")
          /\ "apps" \in DOMAIN req[r].resp.json
          /\ Carries(req[r].resp, journal[last_done])
          /\ \A r2 \in Slots \ {r} : req[r2].pc = "idle"

\* The ways a transmission attempt fails.
TransmissionFailures == {"ConnectionError", "Timeout", "non2xx"}

(* C7: a transmission attempt that fails (connection error, timeout, or a  *)
(* response that is not 2xx) leaves the Reporter in Sleeping, and the      *)
(* Reporter leaves that Sleeping for Capturing unless it is interrupted:   *)
(* the failure neither stops the loop nor leaves main_loop.                *)
C7_TransmissionFailureContained ==
    [][ /\ (pc = "Post" /\ outcome' \in TransmissionFailures) =>
              ReporterState' = "Sleeping"
        /\ (pc = "Sleep" /\ outcome \in TransmissionFailures /\ pc' # pc /\ ~cancelled') =>
              ReporterState' = "Capturing" ]_vars

\* C7 witness: the Reporter sleeps after a transmission that timed out.
C7_Witness ==
    /\ ReporterState = "Sleeping"
    /\ outcome = "Timeout"
    /\ ~cancelled

(* C8: an interrupt delivered while the Reporter is Capturing,             *)
(* Transmitting or Sleeping takes it to Stopped; from Stopped it goes      *)
(* nowhere; and once an interrupt has been delivered no transmission is    *)
(* started or completed.                                                   *)
C8_InterruptStops ==
    [][ /\ (~cancelled /\ cancelled'
              /\ ReporterState \in {"Capturing", "Transmitting", "Sleeping"}) =>
              ReporterState' = "Stopped"
        /\ ReporterState = "Stopped" => (pc' = pc /\ outcome' = outcome)
        /\ cancelled => (ReporterState' # "Transmitting" /\ outcome' = outcome) ]_vars

\* C8 witness: the Reporter has been interrupted and is Stopped.
C8_Witness ==
    /\ cancelled
    /\ ReporterState = "Stopped"

(* C9: main_loop has ended (by returning or by an exception leaving it)    *)
(* only if an interrupt has been delivered: whatever fails in the capture  *)
(* or in the transmission, without an interrupt the loop is still running. *)
C9_EndsOnlyOnCancellation ==
    Ended(pc) => cancelled

(* C10: at every point of an enumeration, after each window visited, the   *)
(* entries collected so far have pairwise different process ids, and so    *)
(* have the entries of the list get_open_apps returns.                     *)
C10_OneEntryPerPid ==
    /\ \A i, j \in 1..Len(apps_by_pid) :
          i # j => apps_by_pid[i].value.pid # apps_by_pid[j].value.pid
    /\ \A i, j \in 1..Len(apps) : i # j => apps[i].pid # apps[j].pid

\* C10 witness: two windows of one process have been visited, both kept by
\* the filters, and the dict holds one entry, with the title of the second.
C10_Witness ==
    /\ pc = "Callback"
    /\ visited = 2
    /\ raw[1].pid = raw[2].pid
    /\ raw[1].title # raw[2].title
    /\ Len(apps_by_pid) = 1
    /\ apps_by_pid[1].value.window_title = raw[2].title

\* get_open_apps returns in this step: apps' is its result for the windows raw.
Returns == pc = "Callback" /\ pc' = "Post"

\* w is narrower than 100 or lower than 50.
Small(w) == w.rect[3] - w.rect[1] < 100 \/ w.rect[4] - w.rect[2] < 50

(* C11: whatever windows EnumWindows went through, a window narrower than  *)
(* 100 or lower than 50 leaves no trace in the list get_open_apps returns: *)
(* if all the windows of its process are that small the list has no entry *)
(* for the process, and an entry of its process never has its title,       *)
(* unless a window of the process that is not small has the same title.    *)
C11_SmallWindowsContributeNothing ==
    [][ Returns =>
          \A i \in 1..Len(raw) :
             Small(raw[i]) =>
                /\ (\A j \in 1..Len(raw) : raw[j].pid = raw[i].pid => Small(raw[j])) =>
                       \A k \in 1..Len(apps') : apps'[k].pid # raw[i].pid
                /\ \A k \in 1..Len(apps') :
                       (apps'[k].pid = raw[i].pid /\ apps'[k].window_title = raw[i].title) =>
                           \E j \in 1..Len(raw) :
                              /\ ~Small(raw[j])
                              /\ raw[j].pid = raw[i].pid
                              /\ raw[j].title = raw[i].title ]_vars

\* C11 witness: the callback has been called for a window of full width but
\* only 49 high, whose title is the longest, after a larger window of the same
\* process, and the one entry of the process has the title of the larger.
C11_Witness ==
    /\ pc = "Callback"
    /\ visited = Len(raw)
    /\ Len(raw) = 2
    /\ ~Small(raw[1])
    /\ Small(raw[2])
    /\ raw[2].rect[3] - raw[2].rect[1] >= 100
    /\ raw[1].pid = raw[2].pid
    /\ Len(raw[2].title) > Len(raw[1].title)
    /\ Len(apps_by_pid) = 1
    /\ apps_by_pid[1].value.window_title = raw[1].title

\* w passes the filters of the enumeration: it is visible, its title is not
\* blank, it is not small, and its process is not one of the system ones.
Qualifies(w) ==
    /\ w.visible
    /\ \E i \in 1..Len(w.title) : ~IsSpace(w.title[i])
    /\ ~Small(w)
    /\ ~(w.proc.exc = "" /\ w.proc.name \in system_like)

(* C12: whatever windows EnumWindows went through, every entry of the list *)
(* get_open_apps returns has the title of a qualifying window of its       *)
(* process that no qualifying window of the process exceeds in length and  *)
(* that comes before every other qualifying window of the process of the   *)
(* same length.                                                            *)
C12_LongestTitleFirstOfTies ==
    [][ Returns =>
          \A k \in 1..Len(apps') :
             \E i \in 1..Len(raw) :
                /\ Qualifies(raw[i])
                /\ raw[i].pid = apps'[k].pid
                /\ raw[i].title = apps'[k].window_title
                /\ \A j \in 1..Len(raw) :
                       (Qualifies(raw[j]) /\ raw[j].pid = raw[i].pid) =>
                           \/ Len(raw[j].title) < Len(raw[i].title)
                           \/ Len(raw[j].title) = Len(raw[i].title) /\ i <= j ]_vars

\* C12 witness: the callback has been called for two qualifying windows of
\* one process whose different titles are of the same length, and the entry
\* of the process has the title of the first.
C12_Witness ==
    /\ pc = "Callback"
    /\ visited = Len(raw)
    /\ Len(raw) = 2
    /\ Qualifies(raw[1])
    /\ Qualifies(raw[2])
    /\ raw[1].pid = raw[2].pid
    /\ raw[1].title # raw[2].title
    /\ Len(raw[1].title) = Len(raw[2].title)
    /\ Len(apps_by_pid) = 1
    /\ apps_by_pid[1].value.window_title = raw[1].title

(* C13: the list get_open_apps returned is in ascending order of the       *)
(* lower-cased process names: of two adjacent entries the second never has *)
(* the smaller lower-cased name.                                           *)
C13_SortedCaseInsensitively ==
    \A k \in 1..(Len(apps) - 1) :
       ~StrLess(lower(apps[k + 1].process_name), lower(apps[k].process_name))

\* C13 witness: get_open_apps has returned three entries, a.exe, B.exe and
\* Unknown in this order, which is not the order of the names as written.
C13_Witness ==
    /\ pc = "Post"
    /\ Len(apps) = 3
    /\ apps[1].process_name = a_exe
    /\ apps[2].process_name = B_exe
    /\ apps[3].process_name = Unknown
    /\ StrLess(B_exe, a_exe)

\* The sentinel process name for a failed lookup: "AccessDenied" for a
\* process that may not be looked at, "Unknown" for one that is gone.
Sentinel(exc) == IF exc = "AccessDenied" THEN AccessDenied ELSE Unknown

(* C14: get_active_window_info and get_open_apps name a process alike.     *)
(* The entry that the enumeration holds for the process of the foreground  *)
(* window has the process name that the probe reported; and the entry of   *)
(* a process whose lookup failed has the sentinel of that failure,         *)
(* "Unknown" for a process that no longer exists or is a zombie,           *)
(* "AccessDenied" for one that is inaccessible.                            *)
C14_SameSentinels ==
    /\ active # None =>
          \A k \in 1..Len(apps_by_pid) :
             apps_by_pid[k].value.pid = active[1].pid =>
                 apps_by_pid[k].value.process_name = active[1].process_name
    /\ pc = "Callback" =>
          \A i \in 1..visited, k \in 1..Len(apps_by_pid) :
             (raw[i].proc.exc # "" /\ apps_by_pid[k].value.pid = raw[i].pid) =>
                 apps_by_pid[k].value.process_name = Sentinel(raw[i].proc.exc)

\* Worker r's POST handler, which had reached the store, returns in this step.
AppendEnds(r) == req[r].pc \in {"insert", "commit"} /\ req'[r].pc = "done"

\* The records this step adds to the table of worker r's request.
Added(r) == db'[TableOf(req[r].endpoint)] \ db[TableOf(req[r].endpoint)]

(* What C15 and its amended form share: when a POST handler that had       *)
(* reached the store returns, the other two tables are as they were, its   *)
(* own table has lost nothing and has gained either nothing or the one     *)
(* complete record of the request (every column of the table, with the     *)
(* values the handler bound); the response is the success or 500           *)
(* {error: "db error"}, the success only with the record stored; and when  *)
(* connecting, creating the cursor or executing the insert failed, the     *)
(* response is the error and nothing is stored.                            *)
NoPartialWrite(r) ==
    LET t == TableOf(req[r].endpoint)
    IN  /\ \A u \in Tables \ {t} : db'[u] = db[u]
        /\ db[t] \subseteq db'[t]
        /\ \/ Added(r) = {}
           \/ /\ req[r].pc = "commit"
              /\ Added(r) = {req[r].row[1]}
              /\ DOMAIN req[r].row[1] = Columns(t)
        /\ req'[r].resp \in {PostOk(req[r].endpoint), DbError}
        /\ req'[r].resp = PostOk(req[r].endpoint) => Added(r) # {}
        /\ req[r].pc = "insert" => (req'[r].resp = DbError /\ Added(r) = {})

(* C15 as stated: a storage failure at any step of an append yields 500    *)
(* {error: "db error"} and no partial write, and whenever the response is  *)
(* the error the record is absent.                                         *)
C15_ErrorMeansAbsent ==
    [][ \A r \in Slots :
          AppendEnds(r) =>
              /\ NoPartialWrite(r)
              /\ req'[r].resp = DbError => Added(r) = {} ]_vars

(* C15: a storage failure at any step of an append yields 500              *)
(* {error: "db error"} and no partial write: the table holds the complete  *)
(* new record or exactly what it held before.  Whenever the failure was in *)
(* connecting, creating the cursor or executing the insert, the record is  *)
(* absent; when the commit raised, the record may have been stored.        *)
C15_FailureIsDbErrorNoPartialWrite ==
    [][ \A r \in Slots : AppendEnds(r) => NoPartialWrite(r) ]_vars

\* C15 witness: a POST /api/heartrate has returned 500 {error: "db error"}
\* after its commit raised, and the heart_rate table holds its record, whole.
C15_Witness ==
    /\ req[1].pc = "done"
    /\ req[1].endpoint = "POST /api/heartrate"
    /\ req[1].resp = DbError
    /\ req[1].row # None
    /\ db["heart_rate"] = {req[1].row[1]}
    /\ DOMAIN req[1].row[1] = Columns("heart_rate")

(* C16: an authorized POST to any of the three endpoints whose body cannot *)
(* be read as a JSON object (bytes that are not JSON, or JSON that is not  *)
(* an object) is answered 400 {error: "invalid json"} and nothing else,    *)
(* without reaching the store: no row is bound, no id is taken and the     *)
(* tables are as they were.                                                *)
C16_MalformedIs400 ==
    [][ ( /\ PostArrives
          /\ Authorized(req'[1])
          /\ req'[1].body.shape # "object" ) =>
            /\ req'[1].pc = "done"
            /\ req'[1].resp = [code |-> 400, json |-> [error |-> "invalid json"]]
            /\ req'[1].row = None
            /\ UNCHANGED <<db, next_id, connections>> ]_vars

\* Worker r's handler returns in this step.
HandlerReturns(r) == req[r].pc # "done" /\ req'[r].pc = "done"

\* The ids of table t that requests still being handled have been given.
IdsInFlight(t) ==
    { req[r].row[1].id : r \in { x \in Slots : req[x].pc = "commit" /\ TableOf(req[x].endpoint) = t } }

(* What C17 and its amended form share.  In every step: no record of any   *)
(* table is changed or removed; the ids of a table are unique; the id an   *)
(* INSERT gives is greater than every id given before in its table; a POST *)
(* that returns its success has added exactly one record, the one it       *)
(* bound, to its own table and none to the other two.                      *)
AppendOnly ==
    /\ \A t \in Tables : db[t] \subseteq db'[t]
    /\ \A t \in Tables : \A x, y \in db'[t] : x.id = y.id => x = y
    /\ \A r \in Slots :
          (req[r].pc = "insert" /\ req'[r].pc = "commit") =>
              LET t == TableOf(req[r].endpoint)
              IN  \A i \in {x.id : x \in db[t]} \cup IdsInFlight(t) : i < req'[r].row[1].id
    /\ \A r \in Slots :
          (HandlerReturns(r) /\ req'[r].resp = PostOk(req[r].endpoint)
                              /\ req[r].endpoint \in PostEndpoints) =>
              /\ Added(r) = {req[r].row[1]}
              /\ \A u \in Tables \ {TableOf(req[r].endpoint)} : db'[u] = db[u]

(* C17 as stated: the stores are append-only, and a GET or a POST answered *)
(* 401, 400 or 500 leaves all three tables as they were.                   *)
C17_RejectedLeavesStoresUnchanged ==
    [][ /\ AppendOnly
        /\ \A r \in Slots :
              (HandlerReturns(r) /\ req'[r].resp # PostOk(req'[r].endpoint)) =>
                  db' = db ]_vars

(* C17: the stores are append-only, and a GET or a POST answered 401, 400  *)
(* or 500 leaves all three tables as they were, except a POST answered 500 *)
(* because its commit raised, which has added nothing or its own record to *)
(* its own table.                                                          *)
C17_AppendOnly ==
    [][ /\ AppendOnly
        /\ \A r \in Slots :
              (HandlerReturns(r) /\ req'[r].resp # PostOk(req'[r].endpoint)) =>
                  \/ db' = db
                  \/ /\ req[r].pc = "commit"
                     /\ req'[r].resp = DbError
                     /\ db' = [db EXCEPT ![TableOf(req[r].endpoint)] =
                                         @ \cup {req[r].row[1]}] ]_vars

\* C17 witness: two POSTs have been handled at the same time, the heart_rate
\* table holds the records of ids 1 and 2 and the activity holds none, one
\* worker has returned 401 from POST /api/status and the other the points of
\* GET /api/heartrate_history.
C17_Witness ==
    /\ {x.id : x \in db["heart_rate"]} = {1, 2}
    /\ db["activity"] = {}
    /\ req[1].pc = "done"
    /\ req[1].resp = Unauthorized
    /\ req[2].pc = "done"
    /\ req[2].endpoint = "GET /api/heartrate_history"
    /\ req[2].resp.code = 200

(* C18: a handler that has returned holds no open connection and no open   *)
(* cursor, however it returned; the connections open at any moment are     *)
(* those of the handlers still at work on the store, so none stays open    *)
(* after any sequence of requests; and a handler that returned 401 or 400  *)
(* never opened a connection or a cursor.                                  *)
C18_ConnectionsReleased ==
    /\ \A r \in Slots :
          req[r].pc \in {"idle", "done"} =>
              (req[r].conn # "open" /\ req[r].cursor # "open")
    /\ connections = Cardinality({r \in Slots : req[r].pc = "commit"})
    /\ \A r \in Slots :
          (req[r].pc = "done" /\ req[r].resp.code \in {400, 401}) =>
              (req[r].conn = "none" /\ req[r].cursor = "none")

\* C18 witness: one handler has returned 500 after its connection was opened
\* and no cursor could be created, another has returned its success after
\* the commit; both have closed what they had opened, and no connection is
\* open.
C18_Witness ==
    /\ req[1].pc = "done"
    /\ req[1].resp = DbError
    /\ req[1].conn = "closed"
    /\ req[1].cursor = "none"
    /\ req[2].pc = "done"
    /\ req[2].resp = PostOk(req[2].endpoint)
    /\ req[2].conn = "closed"
    /\ req[2].cursor = "closed"
    /\ connections = 0

(* C19: however the POSTs are interleaved, the ids and the created_at of   *)
(* the records of a table are in the same order (of two records the one    *)
(* with the higher id has a created_at that is not earlier), and the       *)
(* points GET /api/heartrate_history returns have timestamps that never    *)
(* decrease.                                                               *)
C19_IdOrderIsTimeOrder ==
    /\ \A t \in Tables :
          \A x, y \in db[t] : x.id < y.id => x.created_at <= y.created_at
    /\ \A r \in Slots :
          (Answered(r, "GET /api/heartrate_history") /\ "points" \in DOMAIN req[r].resp.json) =>
              LET points == req[r].resp.json.points
              IN  \A i, j \in 1..Len(points) :
                     i < j => points[i].timestamp <= points[j].timestamp

(* C20: unless an interrupt is delivered, every transmission attempt,      *)
(* failed or not, is followed by a new capture, and that capture by a new  *)
(* transmission attempt, which completes, any number of times over; and a  *)
(* capture other than the first starts only from the sleep that follows a  *)
(* completed transmission attempt.                                         *)
C20_EveryAttemptIsFollowed ==
    /\ (pc = "Sleep") ~> (cancelled \/ pc = "Probe")
    /\ (pc = "Probe") ~> (cancelled \/ pc = "Post")
    /\ (pc = "Post") ~> (cancelled \/ pc = "Sleep")
    /\ [][ (pc # "Probe" /\ pc' = "Probe" /\ pc # "Idle") =>
              (pc = "Sleep" /\ outcome # "none") ]_vars

====
